---------------------------- MODULE Spec2Model ----------------------------
(***************************************************************************)
(* Tic-tac-toe contract (src/src/lib.rs): one game against a rule-based    *)
(* opponent.  The storage fields of `Contract` are the state; every public *)
(* method of the `#[public] impl` is one action, executed atomically (one  *)
(* transaction).  A method that returns Err reverts: storage is unchanged  *)
(* and no event is logged.                                                 *)
(***************************************************************************)
EXTENDS Integers, Sequences, FiniteSets

VARIABLES
    board,          \* StorageArray<StorageU256, 9>: 0 empty, 1 player, 2 contract
    player,         \* StorageAddress
    current_turn,   \* StorageU256: 1 player's turn, 2 contract's turn
    game_status,    \* StorageU256: 0 not started, 1 in progress, 2 finished
    rng_seed,       \* StorageU256
    op,             \* the method of the last call
    sender,         \* msg::sender() of the last call
    arg,            \* the `position` argument of the last call
    result,         \* "Ok" or the error message the last call returned
    returned,       \* the value the last call returned (<<>> for unit)
    log             \* the events the last call emitted, in order

storage == <<board, player, current_turn, game_status, rng_seed>>
vars == <<board, player, current_turn, game_status, rng_seed,
          op, sender, arg, result, returned, log>>

---------------------------------------------------------------------------
(* Constants of the program and bounds of the model *)

BOARD_SIZE == 9

\* Address::ZERO; callers are the addresses 1..NumCallers
ADDRESS_ZERO == 0
NumCallers == 2
Callers == 1..NumCallers

\* A U256 `position` is kept as two limbs: lo, the bits that fit a usize, and
\* hi, the bits above them.  MaxLo bounds the low limbs tried in full.
MaxLo == 10
Positions ==
    {[hi |-> 0, lo |-> n] : n \in 0..MaxLo} \cup
    {[hi |-> 0, lo |-> 100]} \cup
    {[hi |-> 1, lo |-> n] : n \in {0, 4}}
NoPosition == [hi |-> 0, lo |-> 0]

Cells == 0..(BOARD_SIZE - 1)
EmptyBoard == [i \in Cells |-> 0]

\* Option<usize>::None
None == -1

---------------------------------------------------------------------------
(* Win and draw detection *)

\* would_win(&self, board): rows, then columns, then the two diagonals
would_win(b) ==
    \/ \E r \in 0..2 : LET i == 3 * r IN
           b[i] # 0 /\ b[i] = b[i + 1] /\ b[i] = b[i + 2]
    \/ \E i \in 0..2 :
           b[i] # 0 /\ b[i] = b[i + 3] /\ b[i] = b[i + 6]
    \/ (b[0] # 0 /\ b[0] = b[4] /\ b[0] = b[8])
    \/ (b[2] # 0 /\ b[2] = b[4] /\ b[2] = b[6])

\* check_winner without the test of the diagonal 2, 4, 6
check_winner_one_diagonal(b) ==
    \/ \E r \in 0..2 : LET i == 3 * r IN
           b[i] # 0 /\ b[i] = b[i + 1] /\ b[i] = b[i + 2]
    \/ \E i \in 0..2 :
           b[i] # 0 /\ b[i] = b[i + 3] /\ b[i] = b[i + 6]
    \/ (b[0] # 0 /\ b[0] = b[4] /\ b[0] = b[8])

\* check_winner(&self): the same test on the stored board
check_winner(b) ==
    \/ \E r \in 0..2 : LET i == 3 * r IN
           b[i] # 0 /\ b[i] = b[i + 1] /\ b[i] = b[i + 2]
    \/ \E i \in 0..2 :
           b[i] # 0 /\ b[i] = b[i + 3] /\ b[i] = b[i + 6]
    \/ (b[0] # 0 /\ b[0] = b[4] /\ b[0] = b[8])
    \/ (b[2] # 0 /\ b[2] = b[4] /\ b[2] = b[6])

\* is_board_full(&self)
is_board_full(b) == \A i \in Cells : b[i] # 0

---------------------------------------------------------------------------
(* The contract's move *)

\* find_winning_move: scan pos = from..8, return the first empty cell whose
\* marking by `mark` makes would_win true
RECURSIVE find_winning_move_from(_, _, _)
find_winning_move_from(b, mark, pos) ==
    IF pos >= BOARD_SIZE THEN None
    ELSE IF b[pos] = 0 /\ would_win([b EXCEPT ![pos] = mark]) THEN pos
    ELSE find_winning_move_from(b, mark, pos + 1)

find_winning_move(b, mark) == find_winning_move_from(b, mark, 0)

\* the corner scan of make_contract_move: first empty of [0, 2, 6, 8]
corners == <<0, 2, 6, 8>>

RECURSIVE first_empty_corner(_, _)
first_empty_corner(b, k) ==
    IF k > Len(corners) THEN None
    ELSE IF b[corners[k]] = 0 THEN corners[k]
    ELSE first_empty_corner(b, k + 1)

\* the last scan of make_contract_move: first empty of 0..8
RECURSIVE first_empty_from(_, _)
first_empty_from(b, i) ==
    IF i >= BOARD_SIZE THEN None
    ELSE IF b[i] = 0 THEN i
    ELSE first_empty_from(b, i + 1)

\* contract_move_choice with the emptiness test of the corner rule dropped
contract_move_choice_corner_unchecked(b) ==
    IF find_winning_move(b, 2) # None THEN find_winning_move(b, 2)
    ELSE IF find_winning_move(b, 1) # None THEN find_winning_move(b, 1)
    ELSE IF b[4] = 0 THEN 4
    ELSE corners[1]

\* contract_move_choice without its last scan (any empty cell)
contract_move_choice_no_last_scan(b) ==
    IF find_winning_move(b, 2) # None THEN find_winning_move(b, 2)
    ELSE IF find_winning_move(b, 1) # None THEN find_winning_move(b, 1)
    ELSE IF b[4] = 0 THEN 4
    ELSE first_empty_corner(b, 1)

\* contract_move_choice that blocks before it tries to win
contract_move_choice_block_first(b) ==
    IF find_winning_move(b, 1) # None THEN find_winning_move(b, 1)
    ELSE IF find_winning_move(b, 2) # None THEN find_winning_move(b, 2)
    ELSE IF b[4] = 0 THEN 4
    ELSE IF first_empty_corner(b, 1) # None THEN first_empty_corner(b, 1)
    ELSE first_empty_from(b, 0)

\* contract_move_choice without the block rule
contract_move_choice_no_block(b) ==
    IF find_winning_move(b, 2) # None THEN find_winning_move(b, 2)
    ELSE IF b[4] = 0 THEN 4
    ELSE IF first_empty_corner(b, 1) # None THEN first_empty_corner(b, 1)
    ELSE first_empty_from(b, 0)

\* contract_move_choice without the corner rule
contract_move_choice_no_corner_rule(b) ==
    IF find_winning_move(b, 2) # None THEN find_winning_move(b, 2)
    ELSE IF find_winning_move(b, 1) # None THEN find_winning_move(b, 1)
    ELSE IF b[4] = 0 THEN 4
    ELSE first_empty_from(b, 0)

\* The cell make_contract_move passes to make_contract_move_at (None when it
\* falls off the end without moving)
contract_move_choice(b) ==
    IF find_winning_move(b, 2) # None THEN find_winning_move(b, 2)
    ELSE IF find_winning_move(b, 1) # None THEN find_winning_move(b, 1)
    ELSE IF b[4] = 0 THEN 4
    ELSE IF first_empty_corner(b, 1) # None THEN first_empty_corner(b, 1)
    ELSE first_empty_from(b, 0)

\* make_contract_move_at that never hands the turn back to the player
make_contract_move_at_keeps_turn(s, position) ==
    LET b1 == [s.board EXCEPT ![position] = 2]
        l1 == Append(s.log, <<"ContractMove", position>>)
    IN  IF check_winner(b1)
        THEN [s EXCEPT !.board = b1, !.game_status = 2,
                       !.log = Append(l1, <<"GameWon", ADDRESS_ZERO>>)]
        ELSE IF is_board_full(b1)
        THEN [s EXCEPT !.board = b1, !.game_status = 2,
                       !.log = Append(l1, <<"GameDrawn">>)]
        ELSE [s EXCEPT !.board = b1, !.log = l1]

\* make_contract_move_at(&mut self, position), on a state record s
make_contract_move_at(s, position) ==
    LET b1 == [s.board EXCEPT ![position] = 2]
        l1 == Append(s.log, <<"ContractMove", position>>)
    IN  IF check_winner(b1)
        THEN [s EXCEPT !.board = b1, !.game_status = 2,
                       !.log = Append(l1, <<"GameWon", ADDRESS_ZERO>>)]
        ELSE IF is_board_full(b1)
        THEN [s EXCEPT !.board = b1, !.game_status = 2,
                       !.log = Append(l1, <<"GameDrawn">>)]
        ELSE [s EXCEPT !.board = b1, !.current_turn = 1, !.log = l1]

\* make_contract_move with a return missing: after its mark a second rule
\* marks another cell
make_contract_move_twice(s) ==
    LET pos == contract_move_choice(s.board)
    IN  IF pos = None THEN s
        ELSE LET t == make_contract_move_at(s, pos)
                 more == contract_move_choice(t.board)
             IN  IF more = None THEN t ELSE make_contract_move_at(t, more)

\* make_contract_move(&mut self)
make_contract_move(s) ==
    LET pos == contract_move_choice(s.board)
    IN  IF pos = None THEN s ELSE make_contract_move_at(s, pos)

---------------------------------------------------------------------------
(* The public methods *)

\* the storage as a record, with an empty event log
State == [board |-> board, player |-> player, current_turn |-> current_turn,
          game_status |-> game_status, rng_seed |-> rng_seed, log |-> <<>>]

\* position.try_into().unwrap_or(BOARD_SIZE): a U256 that does not fit a usize
\* becomes BOARD_SIZE
position_to_usize(position) ==
    IF position.hi = 0 THEN position.lo ELSE BOARD_SIZE

\* start_game_check comparing the status with the wrong constant
start_game_check_wrong_status(s) ==
    IF s.game_status = 2 THEN "Game already in progress" ELSE "Ok"

\* the guard of start_game: the error it returns, or "Ok"
start_game_check(s) ==
    IF s.game_status # 0 THEN "Game already in progress" ELSE "Ok"

\* start_game_body that gives the first turn to the contract
start_game_body_contract_first(s, caller) ==
    [s EXCEPT !.board = EmptyBoard, !.player = caller,
              !.current_turn = 2, !.game_status = 1,
              !.log = Append(s.log, <<"GameStarted", caller>>)]

\* the body of start_game after its guard
start_game_body(s, caller) ==
    [s EXCEPT !.board = EmptyBoard, !.player = caller,
              !.current_turn = 1, !.game_status = 1,
              !.log = Append(s.log, <<"GameStarted", caller>>)]

\* make_move_check with the status test moved before the position test
make_move_check_status_first(s, position, caller) ==
    LET pos == position_to_usize(position)
    IN  IF s.game_status # 1 THEN "Game not in progress"
        ELSE IF pos >= BOARD_SIZE THEN "Invalid position"
        ELSE IF caller # s.player THEN "Not your game"
        ELSE IF s.current_turn # 1 THEN "Not your turn"
        ELSE IF s.board[pos] # 0 THEN "Position already taken"
        ELSE "Ok"

\* make_move_check without the test of the cell
make_move_check_no_cell_test(s, position, caller) ==
    LET pos == position_to_usize(position)
    IN  IF pos >= BOARD_SIZE THEN "Invalid position"
        ELSE IF s.game_status # 1 THEN "Game not in progress"
        ELSE IF caller # s.player THEN "Not your game"
        ELSE IF s.current_turn # 1 THEN "Not your turn"
        ELSE "Ok"

\* make_move_check without the test of the caller
make_move_check_no_caller_test(s, position, caller) ==
    LET pos == position_to_usize(position)
    IN  IF pos >= BOARD_SIZE THEN "Invalid position"
        ELSE IF s.game_status # 1 THEN "Game not in progress"
        ELSE IF s.current_turn # 1 THEN "Not your turn"
        ELSE IF s.board[pos] # 0 THEN "Position already taken"
        ELSE "Ok"

\* make_move_check that rejects only a game that was never started
make_move_check_finished_allowed(s, position, caller) ==
    LET pos == position_to_usize(position)
    IN  IF pos >= BOARD_SIZE THEN "Invalid position"
        ELSE IF s.game_status = 0 THEN "Game not in progress"
        ELSE IF caller # s.player THEN "Not your game"
        ELSE IF s.current_turn # 1 THEN "Not your turn"
        ELSE IF s.board[pos] # 0 THEN "Position already taken"
        ELSE "Ok"

\* the validation chain of make_move: the first error, or "Ok"
make_move_check(s, position, caller) ==
    LET pos == position_to_usize(position)
    IN  IF pos >= BOARD_SIZE THEN "Invalid position"
        ELSE IF s.game_status # 1 THEN "Game not in progress"
        ELSE IF caller # s.player THEN "Not your game"
        ELSE IF s.current_turn # 1 THEN "Not your turn"
        ELSE IF s.board[pos] # 0 THEN "Position already taken"
        ELSE "Ok"

\* make_move_body with the draw test before the win test
make_move_body_draw_first(s, position, caller) ==
    LET pos == position_to_usize(position)
        b1 == [s.board EXCEPT ![pos] = 1]
        l1 == Append(s.log, <<"PlayerMove", position.lo>>)
    IN  IF is_board_full(b1)
        THEN [s EXCEPT !.board = b1, !.game_status = 2,
                       !.log = Append(l1, <<"GameDrawn">>)]
        ELSE IF check_winner(b1)
        THEN [s EXCEPT !.board = b1, !.game_status = 2,
                       !.log = Append(l1, <<"GameWon", caller>>)]
        ELSE make_contract_move(
                 [s EXCEPT !.board = b1, !.current_turn = 2, !.log = l1])

\* make_move_body that reopens the contract (status 0) when the player wins
make_move_body_reopens(s, position, caller) ==
    LET pos == position_to_usize(position)
        b1 == [s.board EXCEPT ![pos] = 1]
        l1 == Append(s.log, <<"PlayerMove", position.lo>>)
    IN  IF check_winner(b1)
        THEN [s EXCEPT !.board = b1, !.game_status = 0,
                       !.log = Append(l1, <<"GameWon", caller>>)]
        ELSE IF is_board_full(b1)
        THEN [s EXCEPT !.board = b1, !.game_status = 2,
                       !.log = Append(l1, <<"GameDrawn">>)]
        ELSE make_contract_move(
                 [s EXCEPT !.board = b1, !.current_turn = 2, !.log = l1])

\* make_move_body that names Address::ZERO as the winner of the player's win
make_move_body_house_winner(s, position, caller) ==
    LET pos == position_to_usize(position)
        b1 == [s.board EXCEPT ![pos] = 1]
        l1 == Append(s.log, <<"PlayerMove", position.lo>>)
    IN  IF check_winner(b1)
        THEN [s EXCEPT !.board = b1, !.game_status = 2,
                       !.log = Append(l1, <<"GameWon", ADDRESS_ZERO>>)]
        ELSE IF is_board_full(b1)
        THEN [s EXCEPT !.board = b1, !.game_status = 2,
                       !.log = Append(l1, <<"GameDrawn">>)]
        ELSE make_contract_move(
                 [s EXCEPT !.board = b1, !.current_turn = 2, !.log = l1])

\* make_move_body without the draw test
make_move_body_no_draw_test(s, position, caller) ==
    LET pos == position_to_usize(position)
        b1 == [s.board EXCEPT ![pos] = 1]
        l1 == Append(s.log, <<"PlayerMove", position.lo>>)
    IN  IF check_winner(b1)
        THEN [s EXCEPT !.board = b1, !.game_status = 2,
                       !.log = Append(l1, <<"GameWon", caller>>)]
        ELSE make_contract_move(
                 [s EXCEPT !.board = b1, !.current_turn = 2, !.log = l1])

\* make_move_body that never calls make_contract_move
make_move_body_no_reply(s, position, caller) ==
    LET pos == position_to_usize(position)
        b1 == [s.board EXCEPT ![pos] = 1]
        l1 == Append(s.log, <<"PlayerMove", position.lo>>)
    IN  IF check_winner(b1)
        THEN [s EXCEPT !.board = b1, !.game_status = 2,
                       !.log = Append(l1, <<"GameWon", caller>>)]
        ELSE IF is_board_full(b1)
        THEN [s EXCEPT !.board = b1, !.game_status = 2,
                       !.log = Append(l1, <<"GameDrawn">>)]
        ELSE [s EXCEPT !.board = b1, !.log = l1]

\* the body of make_move after its validation chain
make_move_body(s, position, caller) ==
    LET pos == position_to_usize(position)
        b1 == [s.board EXCEPT ![pos] = 1]
        l1 == Append(s.log, <<"PlayerMove", position.lo>>)
    IN  IF check_winner(b1)
        THEN [s EXCEPT !.board = b1, !.game_status = 2,
                       !.log = Append(l1, <<"GameWon", caller>>)]
        ELSE IF is_board_full(b1)
        THEN [s EXCEPT !.board = b1, !.game_status = 2,
                       !.log = Append(l1, <<"GameDrawn">>)]
        ELSE make_contract_move(
                 [s EXCEPT !.board = b1, !.current_turn = 2, !.log = l1])

\* commit the state record t as the outcome of a call
Commit(t) ==
    /\ board' = t.board
    /\ player' = t.player
    /\ current_turn' = t.current_turn
    /\ game_status' = t.game_status
    /\ rng_seed' = t.rng_seed
    /\ log' = t.log

\* a call that returned Err: the transaction reverts
Revert ==
    /\ UNCHANGED storage
    /\ log' = <<>>

constructor(caller) ==
    /\ op' = "constructor"
    /\ sender' = caller
    /\ arg' = NoPosition
    /\ Commit([State EXCEPT !.game_status = 0, !.rng_seed = 1])
    /\ result' = "Ok"
    /\ returned' = <<>>

start_game(caller) ==
    /\ op' = "start_game"
    /\ sender' = caller
    /\ arg' = NoPosition
    /\ result' = start_game_check(State)
    /\ returned' = <<>>
    /\ IF start_game_check(State) = "Ok"
       THEN Commit(start_game_body(State, caller))
       ELSE Revert

make_move(caller, position) ==
    /\ op' = "make_move"
    /\ sender' = caller
    /\ arg' = position
    /\ result' = make_move_check(State, position, caller)
    /\ returned' = <<>>
    /\ IF make_move_check(State, position, caller) = "Ok"
       THEN Commit(make_move_body(State, position, caller))
       ELSE Revert

get_game_state(caller) ==
    /\ op' = "get_game_state"
    /\ sender' = caller
    /\ arg' = NoPosition
    /\ result' = "Ok"
    /\ returned' = <<board, player, current_turn, game_status>>
    /\ UNCHANGED storage
    /\ log' = <<>>

\* the state after deployment and the constructor call: fresh (zero) storage
\* with game_status 0 and rng_seed 1
Init ==
    /\ board = EmptyBoard
    /\ player = ADDRESS_ZERO
    /\ current_turn = 0
    /\ game_status = 0
    /\ rng_seed = 1
    /\ op = "constructor"
    /\ sender \in Callers
    /\ arg = NoPosition
    /\ result = "Ok"
    /\ returned = <<>>
    /\ log = <<>>

Next ==
    \/ \E c \in Callers : constructor(c)
    \/ \E c \in Callers : start_game(c)
    \/ \E c \in Callers : \E p \in Positions : make_move(c, p)
    \/ \E c \in Callers : get_game_state(c)

Spec == Init /\ [][Next]_vars

\* The calls of start_game, make_move and get_game_state after construction
\* (no further call of the method named constructor)
NextGame ==
    \/ \E c \in Callers : start_game(c)
    \/ \E c \in Callers : \E p \in Positions : make_move(c, p)
    \/ \E c \in Callers : get_game_state(c)

SpecGame == Init /\ [][NextGame]_vars

\* The methods as functions of the storage: the storage starts as any game in
\* progress in which the player is to move (as many contract marks as player
\* marks, no completed line), whether or not the contract's own replies lead
\* to it.
GamesToMove ==
    {b \in [Cells -> 0..2] :
        /\ Cardinality({i \in Cells : b[i] = 1})
             = Cardinality({i \in Cells : b[i] = 2})
        /\ ~check_winner(b)}

InitBoards ==
    /\ board \in GamesToMove
    /\ player \in Callers
    /\ current_turn = 1
    /\ game_status = 1
    /\ rng_seed = 1
    /\ op = "get_game_state"
    /\ sender = player
    /\ arg = NoPosition
    /\ result = "Ok"
    /\ returned = <<board, player, current_turn, game_status>>
    /\ log = <<>>

NextBoards == \E c \in Callers : \E p \in Positions : make_move(c, p)

SpecBoards == InitBoards /\ [][NextBoards]_vars

\* make_contract_move as a function of the board: the storage starts at the
\* point where make_move calls it (lib.rs:116-119: game in progress, the
\* contract's turn) with any board that has no completed line and an empty
\* cell, whether or not a game leads to it.
SelectorBoards ==
    {b \in [Cells -> 0..2] : ~check_winner(b) /\ ~is_board_full(b)}

InitSelector ==
    /\ board \in SelectorBoards
    /\ player \in Callers
    /\ current_turn = 2
    /\ game_status = 1
    /\ rng_seed = 1
    /\ op = "make_move"
    /\ sender = player
    /\ arg = NoPosition
    /\ result = "Ok"
    /\ returned = <<>>
    /\ log = <<>>

\* the call of make_contract_move at lib.rs:119
contract_reply ==
    /\ current_turn = 2
    /\ game_status = 1
    /\ op' = "make_contract_move"
    /\ UNCHANGED <<sender, arg>>
    /\ result' = "Ok"
    /\ returned' = <<>>
    /\ Commit(make_contract_move(State))

SpecSelector == InitSelector /\ [][contract_reply]_vars

---------------------------------------------------------------------------
(* Shorthands used by the properties *)

InRange(position) == position.hi = 0 /\ position.lo < BOARD_SIZE
Marks(b, m) == Cardinality({i \in Cells : b[i] = m})
Emitted(name) == \E k \in 1..Len(log) : log[k][1] = name

TypeOK ==
    /\ board \in [Cells -> 0..2]
    /\ player \in Callers \cup {ADDRESS_ZERO}
    /\ current_turn \in 0..2
    /\ game_status \in 0..2
    /\ rng_seed = 1

\* the 8 winning lines of the 3x3 grid: rows, columns, diagonals
WinningLines ==
    {{0, 1, 2}, {3, 4, 5}, {6, 7, 8},
     {0, 3, 6}, {1, 4, 7}, {2, 5, 8},
     {0, 4, 8}, {2, 4, 6}}
HasLine(b) == \E L \in WinningLines : \E m \in {1, 2} : \A i \in L : b[i] = m
IsFull(b) == Marks(b, 0) = 0

\* the error a make_move call must report: the first failing check in the
\* order InvalidPosition, GameNotActive, NotAuthorized, OutOfTurn, CellOccupied
FirstFailure(position, caller) ==
    IF ~InRange(position) THEN "Invalid position"
    ELSE IF game_status # 1 THEN "Game not in progress"
    ELSE IF caller # player THEN "Not your game"
    ELSE IF current_turn # 1 THEN "Not your turn"
    ELSE IF board[position.lo] # 0 THEN "Position already taken"
    ELSE "Ok"

---------------------------------------------------------------------------
(* The claims *)

\* C1 (as claimed): a start_game call made while the status is Finished
\* succeeds and leaves an all-empty board, the player's turn and the status
\* InProgress.
C1_StartAfterFinished ==
    [][(game_status = 2 /\ op' = "start_game")
         => /\ result' = "Ok"
            /\ board' = EmptyBoard
            /\ current_turn' = 1
            /\ game_status' = 1]_vars

\* C2: a start_game call made while the status is InProgress fails with
\* "Game already in progress" and changes no storage field and logs nothing,
\* whoever the caller is.
C2_StartInProgressRejected ==
    [][(game_status = 1 /\ op' = "start_game")
         => /\ result' = "Game already in progress"
            /\ UNCHANGED storage
            /\ log' = <<>>]_vars

C2_Witness ==
    /\ op = "start_game"
    /\ result = "Game already in progress"
    /\ game_status = 1
    /\ sender # player
    /\ Marks(board, 1) > 0

\* C3: every make_move call reports the error of the first failing check in
\* the order InvalidPosition, GameNotActive, NotAuthorized, OutOfTurn,
\* CellOccupied, and a failing call changes no storage field and logs nothing.
C3_ValidationOrder ==
    [][op' = "make_move"
         => /\ result' = FirstFailure(arg', sender')
            /\ (result' # "Ok" => UNCHANGED storage /\ log' = <<>>)]_vars

\* a position outside [0,8] rejected as invalid in a Finished game, for a
\* caller that is not the bound player
C3_Witness ==
    /\ op = "make_move"
    /\ result = "Invalid position"
    /\ game_status = 2
    /\ sender # player
    /\ arg.hi = 0 /\ arg.lo = 100

\* C4 (as claimed): a make_move call on an occupied cell fails with
\* "Position already taken" and leaves the board unchanged, on every board.
C4_OccupiedAlwaysCellOccupied ==
    [][(op' = "make_move" /\ InRange(arg') /\ board[arg'.lo] # 0)
         => /\ result' = "Position already taken"
            /\ board' = board]_vars

\* C4 (amended): a make_move call on an occupied cell fails and leaves the
\* storage unchanged; its error is "Position already taken" exactly when the
\* game is InProgress, the caller is the bound player and it is the player's
\* turn, and otherwise the error of the earlier failing check.
C4_OccupiedRejected ==
    [][(op' = "make_move" /\ InRange(arg') /\ board[arg'.lo] # 0)
         => /\ result' # "Ok"
            /\ UNCHANGED storage
            /\ (result' = "Position already taken"
                  <=> (game_status = 1 /\ sender' = player /\ current_turn = 1))
            /\ (game_status # 1 => result' = "Game not in progress")
            /\ (game_status = 1 /\ sender' # player => result' = "Not your game")]_vars

C4_Witness ==
    /\ op = "make_move"
    /\ result = "Position already taken"
    /\ InRange(arg)
    /\ board[arg.lo] = 2

C6_TurnAlternation ==
    [][(op' = "make_move" /\ result' = "Ok" /\ game_status' # 2)
         => /\ current_turn' = 1
            /\ board[arg'.lo] = 0
            /\ \E q \in Cells \ {arg'.lo} :
                 /\ board[q] = 0
                 /\ board' = [board EXCEPT ![arg'.lo] = 1, ![q] = 2]]_vars

C6_Witness ==
    /\ op = "make_move"
    /\ result = "Ok"
    /\ game_status = 1
    /\ Marks(board, 1) = 3
    /\ Marks(board, 2) = 3

\* C7: a successful make_move that leaves the board both full and with a
\* winning line logs GameWon and does not log GameDrawn.  Checked under
\* SpecBoards: against the contract's own replies no game reaches a board
\* that the player's ninth mark fills with a line.
C7_WinBeforeDraw ==
    (op = "make_move" /\ result = "Ok" /\ IsFull(board) /\ HasLine(board))
      => (Emitted("GameWon") /\ ~Emitted("GameDrawn") /\ game_status = 2)

C7_Witness ==
    /\ op = "make_move"
    /\ result = "Ok"
    /\ IsFull(board)
    /\ HasLine(board)
    /\ log[Len(log)] = <<"GameWon", player>>

\* C8: a start_game, make_move or get_game_state call changes the status only
\* from NotStarted to InProgress (a successful start_game), from InProgress
\* to Finished (a successful make_move) or from Finished to InProgress (a
\* successful start_game); it never sets it back to NotStarted.
C8_StatusForward ==
    [][op' \in {"start_game", "make_move", "get_game_state"}
         => \/ game_status' = game_status
            \/ /\ game_status = 0 /\ game_status' = 1
               /\ op' = "start_game" /\ result' = "Ok"
            \/ /\ game_status = 1 /\ game_status' = 2
               /\ op' = "make_move" /\ result' = "Ok"
            \/ /\ game_status = 2 /\ game_status' = 1
               /\ op' = "start_game" /\ result' = "Ok"]_vars

C8_Witness ==
    /\ op = "make_move"
    /\ result = "Ok"
    /\ game_status = 2
    /\ log[Len(log)] = <<"GameWon", player>>

\* C9: a call other than a successful start_game leaves every non-empty cell
\* as it is, so the number of non-empty cells does not decrease, and it is at
\* most 9.
C9_CellsNeverReset ==
    [][~(op' = "start_game" /\ result' = "Ok")
         => /\ \A i \in Cells : board[i] # 0 => board'[i] = board[i]
            /\ Marks(board', 0) <= Marks(board, 0)
            /\ BOARD_SIZE - Marks(board', 0) <= 9]_vars

C9_Witness ==
    /\ op = "make_move"
    /\ result = "Ok"
    /\ Marks(board, 1) = 4
    /\ Marks(board, 2) = 4

\* C10: while the status is Finished every make_move call fails and changes
\* no storage field and logs nothing.
C10_FinishedFrozen ==
    [][(game_status = 2 /\ op' = "make_move")
         => /\ result' # "Ok"
            /\ UNCHANGED storage
            /\ log' = <<>>]_vars

\* a move of the bound player on an empty cell of a Finished game is refused
C10_Witness ==
    /\ op = "make_move"
    /\ result = "Game not in progress"
    /\ game_status = 2
    /\ sender = player
    /\ InRange(arg)
    /\ board[arg.lo] = 0

\* a line of mark m on board b
HasLineOf(b, m) == \E L \in WinningLines : \A i \in L : b[i] = m

\* C11: a successful make_move whose mark completes a line of player marks
\* sets the status to Finished, logs PlayerMove and then GameWon with the
\* bound player as winner, and changes no cell but the requested one (the
\* contract does not reply).
C11_PlayerWinEndsGame ==
    [][(/\ op' = "make_move" /\ result' = "Ok"
        /\ \E L \in WinningLines :
             /\ arg'.lo \in L
             /\ \A i \in L \ {arg'.lo} : board[i] = 1)
         => /\ game_status' = 2
            /\ log' = << <<"PlayerMove", arg'.lo>>, <<"GameWon", player>> >>
            /\ player' = player
            /\ board' = [board EXCEPT ![arg'.lo] = 1]]_vars

\* make_move(2) on [1,1,0,2,2,0,0,0,0] ended with [1,1,1,2,2,0,0,0,0]
C11_Witness ==
    /\ op = "make_move"
    /\ result = "Ok"
    /\ arg = [hi |-> 0, lo |-> 2]
    /\ board = [i \in Cells |-> IF i \in {0, 1, 2} THEN 1
                                ELSE IF i \in {3, 4} THEN 2 ELSE 0]
    /\ game_status = 2
    /\ log[Len(log)] = <<"GameWon", player>>

\* C12: a successful make_move that leaves the board full with no line on any
\* of the 8 triples logs GameDrawn, logs no GameWon, and sets the status to
\* Finished.
C12_DrawOnFullBoard ==
    (op = "make_move" /\ result = "Ok" /\ IsFull(board) /\ ~HasLine(board))
      => /\ game_status = 2
         /\ log[Len(log)] = <<"GameDrawn">>
         /\ ~Emitted("GameWon")

C12_Witness ==
    /\ op = "make_move"
    /\ result = "Ok"
    /\ IsFull(board)
    /\ ~HasLine(board)
    /\ Emitted("GameDrawn")

\* the last call was ended by the player's own mark (a win or a draw), so
\* make_contract_move was not called
EndedByPlayer(l) == Len(l) = 2 /\ l[2][1] \in {"GameWon", "GameDrawn"}

\* C13: whenever a successful make_move calls make_contract_move (the
\* player's mark did not end the game), the board with the player's mark has
\* an empty cell, and the call puts exactly one contract mark on a cell that
\* was empty and logs it.
C13_SelectorAlwaysMoves ==
    [][(op' = "make_move" /\ result' = "Ok" /\ ~EndedByPlayer(log'))
         => LET b1 == [board EXCEPT ![arg'.lo] = 1]
            IN  /\ ~IsFull(b1)
                /\ Len(log') >= 2
                /\ \E q \in Cells :
                     /\ b1[q] = 0
                     /\ board' = [b1 EXCEPT ![q] = 2]
                     /\ log'[2] = <<"ContractMove", q>>]_vars

\* the contract's fourth mark: it moved with two cells left
C13_Witness ==
    /\ op = "make_move"
    /\ result = "Ok"
    /\ Len(log) >= 2
    /\ log[2][1] = "ContractMove"
    /\ Marks(board, 2) = 4
    /\ Marks(board, 0) = 1

\* the empty cells of b that complete a line of mark m
CompletingCells(b, m) ==
    {c \in Cells :
        /\ b[c] = 0
        /\ \E L \in WinningLines : c \in L /\ \A i \in L \ {c} : b[i] = m}
EmptyCells(b) == {c \in Cells : b[c] = 0}
Lowest(S) == CHOOSE x \in S : \A y \in S : x <= y

\* the rule list of the opponent: win, block, center, corner, any
RuleChoice(b) ==
    IF CompletingCells(b, 2) # {} THEN Lowest(CompletingCells(b, 2))
    ELSE IF CompletingCells(b, 1) # {} THEN Lowest(CompletingCells(b, 1))
    ELSE IF b[4] = 0 THEN 4
    ELSE IF EmptyCells(b) \cap {0, 2, 6, 8} # {}
         THEN Lowest(EmptyCells(b) \cap {0, 2, 6, 8})
    ELSE Lowest(EmptyCells(b))

\* C14: on every board with no line and an empty cell, make_contract_move
\* marks the cell the rule list names (win, else block, else center, else
\* first empty corner of 0,2,6,8, else first empty cell) and no other; when a
\* cell completes a contract line the game ends with GameWon naming
\* Address::ZERO.
C14_SelectorFollowsRules ==
    [][op' = "make_contract_move"
         => /\ board' = [board EXCEPT ![RuleChoice(board)] = 2]
            /\ log'[1] = <<"ContractMove", RuleChoice(board)>>
            /\ (CompletingCells(board, 2) # {}
                  => /\ game_status' = 2
                     /\ log' = << <<"ContractMove", RuleChoice(board)>>,
                                  <<"GameWon", ADDRESS_ZERO>> >>)]_vars

\* the contract took its win on cell q although a lower cell would have
\* blocked a line of the player
C14_Witness ==
    /\ op = "make_contract_move"
    /\ game_status = 2
    /\ Len(log) = 2
    /\ log[2] = <<"GameWon", ADDRESS_ZERO>>
    /\ LET q == log[1][2]
           b0 == [board EXCEPT ![q] = 0]
       IN  /\ CompletingCells(b0, 1) # {}
           /\ Lowest(CompletingCells(b0, 1)) < q

\* C15: on a board where no cell completes a contract line and some empty
\* cell completes a player line, make_contract_move marks the lowest such
\* cell.
C15_ImmediateBlock ==
    [][(/\ op' = "make_contract_move"
        /\ CompletingCells(board, 2) = {}
        /\ CompletingCells(board, 1) # {})
         => \E c \in CompletingCells(board, 1) :
              /\ \A d \in CompletingCells(board, 1) : c <= d
              /\ board' = [board EXCEPT ![c] = 2]
              /\ log'[1] = <<"ContractMove", c>>]_vars

\* player marks at 0 and 1, nothing else: the contract played 2
C15_Witness ==
    /\ op = "make_contract_move"
    /\ board = [i \in Cells |-> IF i \in {0, 1} THEN 1
                                ELSE IF i = 2 THEN 2 ELSE 0]
    /\ log = << <<"ContractMove", 2>> >>
    /\ current_turn = 1

C18_ContractNeverDraws ==
    /\ Emitted("ContractMove")
         => /\ ~IsFull(board)
            /\ ~Emitted("GameDrawn")
            /\ (game_status = 2
                  => /\ log[Len(log)] = <<"GameWon", ADDRESS_ZERO>>
                     /\ HasLineOf(board, 2))
    /\ Emitted("GameDrawn")
         => /\ Len(log) = 2
            /\ log[1][1] = "PlayerMove"
            /\ Marks(board, 1) = 5
            /\ Marks(board, 2) = 4

\* the contract's fourth mark ended the game, one cell still empty
C18_Witness ==
    /\ Emitted("ContractMove")
    /\ game_status = 2
    /\ Marks(board, 0) = 1

\* C19: between calls, a game in progress has no line and an empty cell; a
\* Finished game has a line or a full board; the board never has a line of
\* player marks and a line of contract marks; and a GameWon event names the
\* bound player only with a line of player marks on the board and
\* Address::ZERO only with a line of contract marks.
C19_StatusMatchesBoard ==
    /\ (game_status = 1 => ~HasLine(board) /\ ~IsFull(board))
    /\ (game_status = 2 => HasLine(board) \/ IsFull(board))
    /\ ~(HasLineOf(board, 1) /\ HasLineOf(board, 2))
    /\ \A k \in 1..Len(log) :
         log[k][1] = "GameWon"
           => /\ log[k][2] \in {player, ADDRESS_ZERO}
              /\ (log[k][2] = player => HasLineOf(board, 1))
              /\ (log[k][2] = ADDRESS_ZERO => HasLineOf(board, 2))

\* the contract completed the diagonal 2, 4, 6
C19_Witness ==
    /\ game_status = 2
    /\ board[2] = 2 /\ board[4] = 2 /\ board[6] = 2
    /\ log[Len(log)] = <<"GameWon", ADDRESS_ZERO>>

\* the board with player marks on the cells P and contract marks on the cells Q
BoardOf(P, Q) ==
    [i \in Cells |-> IF i \in P THEN 1 ELSE IF i \in Q THEN 2 ELSE 0]

\* the bound player's successful make_move(n) on board b
PlayerMoves(b, n) ==
    /\ board = b
    /\ game_status = 1
    /\ op' = "make_move"
    /\ sender' = player
    /\ arg' = [hi |-> 0, lo |-> n]

\* C20: the player can beat the contract.  A successful start_game leaves an
\* empty board in progress, and from there the bound player's moves 0, 8, 6,
\* 7 are each accepted and answered by the contract with 4, 2, 3, after
\* which the mark on 7 completes the line 6, 7, 8: status Finished, GameWon
\* naming the player.
C20_ForkBeatsContract ==
    [][/\ (op' = "start_game" /\ result' = "Ok")
            => (board' = EmptyBoard /\ game_status' = 1 /\ player' = sender')
       /\ PlayerMoves(EmptyBoard, 0)
            => /\ result' = "Ok" /\ game_status' = 1
               /\ board' = BoardOf({0}, {4})
       /\ PlayerMoves(BoardOf({0}, {4}), 8)
            => /\ result' = "Ok" /\ game_status' = 1
               /\ board' = BoardOf({0, 8}, {4, 2})
       /\ PlayerMoves(BoardOf({0, 8}, {4, 2}), 6)
            => /\ result' = "Ok" /\ game_status' = 1
               /\ board' = BoardOf({0, 8, 6}, {4, 2, 3})
       /\ PlayerMoves(BoardOf({0, 8, 6}, {4, 2, 3}), 7)
            => /\ result' = "Ok" /\ game_status' = 2
               /\ board' = BoardOf({0, 8, 6, 7}, {4, 2, 3})
               /\ log' = << <<"PlayerMove", 7>>, <<"GameWon", player>> >>]_vars

\* the end of the game 0, 8, 6, 7: the player won
C20_Witness ==
    /\ board = BoardOf({0, 8, 6, 7}, {4, 2, 3})
    /\ game_status = 2
    /\ op = "make_move"
    /\ arg = [hi |-> 0, lo |-> 7]
    /\ sender = player
    /\ log = << <<"PlayerMove", 7>>, <<"GameWon", player>> >>

=============================================================================
